---- MODULE Spec2Model ----
(***************************************************************************)
(* Model of app/services/firebase_service.py: the lazily initialised       *)
(* Firebase app / Firestore client globals, and the conversation-flow,     *)
(* lead and session operations that read and write the document store.     *)
(*                                                                         *)
(* Two threads exist.  "loop" is the thread that imports the module and    *)
(* then runs the coroutines (async def) one at a time; "worker" is any     *)
(* other thread that calls the synchronous functions initialize_firebase   *)
(* and get_firestore_client.  The code takes no lock, so the statements of *)
(* the two threads interleave freely.                                      *)
(***************************************************************************)
EXTENDS Integers, Sequences, FiniteSets, TLC

VARIABLES
    env,                \* what os.getenv("FIREBASE_KEY") holds at the moment
    clock,              \* what datetime.now() returns at the moment
    _firebase_app,      \* module global, line 22
    _firestore_client,  \* module global, line 23
    pc,                 \* per thread: the line it is about to execute
    call,               \* per thread: the public function it is executing
    local,              \* per thread: locals of the running call
    flows,              \* collection "conversation_flows": id -> document
    leads,              \* collection "leads": id -> document
    sessions,           \* collection "user_sessions": id -> document
    supplied,           \* history: per session id, the fields callers supplied
    last                \* history: the call that completed most recently

vars == <<env, clock, _firebase_app, _firestore_client, pc, call, local,
          flows, leads, sessions, supplied, last>>

store == <<flows, leads, sessions, supplied>>
globals == <<_firebase_app, _firestore_client>>

-----------------------------------------------------------------------------
(* Bounds *)

\* datetime.now() ranges over 0..MaxTime
MaxTime == 2

\* the store assigns lead ids out of 1..MaxLeads
MaxLeads == 2

\* a stored flow document holds at most MaxSteps steps
MaxSteps == 2

-----------------------------------------------------------------------------
(* Values *)

None == "None"

Threads == {"loop", "worker"}

\* FIREBASE_KEY: unset; not JSON or not a service-account certificate; a
\* certificate without a project id (initialize_app accepts it, and
\* firestore.client() raises ValueError for it); a complete certificate.
EnvValues == {"missing", "malformed", "noproject", "valid"}

\* The empty mapping {}.
Empty == [k \in {} |-> 0]

\* dict.get(key, default)
Get(d, k, default) == IF k \in DOMAIN d THEN d[k] ELSE default

\* d with the fields of u written over it: dict.update, Firestore merge/update
Merge(d, u) == u @@ d

NoLocal == [work |-> {}, guard |-> None, cred |-> None]

NoCall == [op |-> "none", thread |-> "loop", raised |-> FALSE, value |-> None,
           failure |-> "none", work |-> {}, guard |-> None, info |-> Empty]

-----------------------------------------------------------------------------
(* Calls, their results and their except blocks *)

SyncOps == {"initialize_firebase", "get_firestore_client"}

Coroutines == {"get_conversation_flow", "get_fallback_questions",
               "save_lead_data", "update_lead_data", "get_user_session",
               "save_user_session", "get_firebase_service_status"}

\* the functions whose except block returns a value instead of raising
SwallowOps == {"get_fallback_questions", "update_lead_data",
               "get_user_session", "save_user_session",
               "get_firebase_service_status"}

Returned(v) == [raised |-> FALSE, value |-> v]
Raised(detail) == [raised |-> TRUE, value |-> detail]

\* get_fallback_questions around the result of get_conversation_flow
FallbackOf(res) ==
    IF res.raised THEN Returned(<< >>)
    ELSE LET steps == Get(res.value, "steps", << >>)
             has == {i \in 1..Len(steps) : "question" \in DOMAIN steps[i]}
             F[i \in 0..Len(steps)] ==
                 IF i = 0 THEN << >>
                 ELSE IF i \in has THEN Append(F[i-1], steps[i].question)
                      ELSE F[i-1]
         IN  Returned(F[Len(steps)])

\* What the call op gives its caller when an exception reaches its except
\* block (or, for the two synchronous functions, leaves it).
OnErrorPropagating(op) ==
    Raised("HTTPException")
OnError(op) ==
    CASE op = "import" -> Returned("deferred")
      [] op = "initialize_firebase" -> Raised("Firebase initialization failed")
      [] op = "get_firestore_client" -> Raised("Firebase initialization failed")
      [] op = "get_conversation_flow" -> Raised("Falha ao recuperar fluxo de conversa")
      [] op = "get_fallback_questions" ->
             FallbackOf(Raised("Falha ao recuperar fluxo de conversa"))
      [] op = "save_lead_data" -> Raised("Falha ao salvar lead")
      [] op = "update_lead_data" -> Returned(FALSE)
      [] op = "get_user_session" -> Returned(None)
      [] op = "save_user_session" -> Returned(FALSE)
      [] op = "get_firebase_service_status" ->
             Returned([status |-> "error", firestore_connected |-> FALSE,
                       configuration_required |-> TRUE])

\* The call of thread t ends: with result res, after the failure named
\* (none, init, store), with locals loc; info describes what it did.
Finish(t, res, failure, loc, info) ==
    /\ pc' = [pc EXCEPT ![t] = "idle"]
    /\ call' = [call EXCEPT ![t] = "none"]
    /\ local' = [local EXCEPT ![t] = NoLocal]
    /\ last' = [op |-> call[t], thread |-> t, raised |-> res.raised,
                value |-> res.value, failure |-> failure,
                work |-> loc.work, guard |-> loc.guard, info |-> info]

Goto(t, line, loc) ==
    /\ pc' = [pc EXCEPT ![t] = line]
    /\ local' = [local EXCEPT ![t] = loc]
    /\ UNCHANGED <<call, last>>

Imported == call["loop"] # "import"

-----------------------------------------------------------------------------
(* initialize_firebase and get_firestore_client, statement by statement *)

\* A thread calls one of the two synchronous functions.
BeginSync(t, op) ==
    /\ Imported
    /\ pc[t] = "idle"
    /\ call' = [call EXCEPT ![t] = op]
    /\ pc' = [pc EXCEPT ![t] =
                 IF op = "initialize_firebase" THEN "init_32" ELSE "gfc_62"]
    /\ local' = [local EXCEPT ![t] = NoLocal]
    /\ UNCHANGED <<env, clock, globals, store, last>>

\* The event loop starts a coroutine; each begins with get_firestore_client().
BeginCoroutine(op) ==
    /\ Imported
    /\ pc["loop"] = "idle"
    /\ call' = [call EXCEPT !["loop"] = op]
    /\ pc' = [pc EXCEPT !["loop"] = "gfc_62"]
    /\ local' = [local EXCEPT !["loop"] = NoLocal]
    /\ UNCHANGED <<env, clock, globals, store, last>>

\* initialize_firebase returns normally to whoever called it.
InitReturns(t, loc) ==
    IF call[t] \in {"import", "initialize_firebase"}
    THEN Finish(t, Returned(None), "none", loc, Empty)
    ELSE Goto(t, "gfc_65", loc)

\* lines 50-55: the except block raises HTTPException to the caller, whose
\* own except block (if any) decides what the call gives.
InitRaises(t, loc) ==
    Finish(t, OnError(call[t]), "init", loc, Empty)

\* line 62: if _firestore_client is None: initialize_firebase()
GfcCheck(t) ==
    /\ pc[t] = "gfc_62"
    /\ Goto(t, IF _firestore_client = None THEN "init_32" ELSE "gfc_65",
            local[t])
    /\ UNCHANGED <<env, clock, globals, store>>

\* lines 32-34: if _firebase_app is not None: return
InitGuardLocked(t) ==
    /\ pc[t] = "init_32"
    /\ \A u \in Threads \ {t} : pc[u] \notin {"init_37", "init_46", "init_47"}
    /\ LET loc == [local[t] EXCEPT !.guard = _firebase_app]
       IN  IF _firebase_app # None THEN InitReturns(t, loc)
           ELSE Goto(t, "init_37", loc)
    /\ UNCHANGED <<env, clock, globals, store>>
InitGuardOnClient(t) ==
    /\ pc[t] = "init_32"
    /\ LET loc == [local[t] EXCEPT !.guard = _firebase_app]
       IN  IF _firestore_client # None THEN InitReturns(t, loc)
           ELSE Goto(t, "init_37", loc)
    /\ UNCHANGED <<env, clock, globals, store>>
InitGuard(t) ==
    /\ pc[t] = "init_32"
    /\ LET loc == [local[t] EXCEPT !.guard = _firebase_app]
       IN  IF _firebase_app # None THEN InitReturns(t, loc)
           ELSE Goto(t, "init_37", loc)
    /\ UNCHANGED <<env, clock, globals, store>>

\* lines 37-43: os.getenv, json.loads, credentials.Certificate
InitLoad(t) ==
    /\ pc[t] = "init_37"
    /\ LET loc == [local[t] EXCEPT !.work = @ \cup {"credentials"},
                                   !.cred = env]
       IN  IF env \in {"missing", "malformed"} THEN InitRaises(t, loc)
           ELSE Goto(t, "init_46", loc)
    /\ UNCHANGED <<env, clock, globals, store>>

\* line 46: _firebase_app = firebase_admin.initialize_app(cred).  The SDK
\* keeps one default app per process and raises ValueError for a second.
InitApp(t) ==
    /\ pc[t] = "init_46"
    /\ LET loc == [local[t] EXCEPT !.work = @ \cup {"app"}]
       IN  IF _firebase_app # None
           THEN InitRaises(t, local[t]) /\ UNCHANGED _firebase_app
           ELSE Goto(t, "init_47", loc) /\ _firebase_app' = local[t].cred
    /\ UNCHANGED <<env, clock, _firestore_client, store>>

\* line 47: _firestore_client = firestore.client(), of the default app
InitClient(t) ==
    /\ pc[t] = "init_47"
    /\ LET loc == [local[t] EXCEPT !.work = @ \cup {"client"}]
       IN  IF _firebase_app = "noproject"
           THEN InitRaises(t, local[t]) /\ UNCHANGED _firestore_client
           ELSE InitReturns(t, loc) /\ _firestore_client' = "client"
    /\ UNCHANGED <<env, clock, _firebase_app, store>>

\* lines 65-71: raise if the client is still None, else return it
GfcReturn(t) ==
    /\ pc[t] = "gfc_65"
    /\ IF _firestore_client = None
       THEN Finish(t, OnError(call[t]), "init", local[t], Empty)
       ELSE IF call[t] = "get_firestore_client"
            THEN Finish(t, Returned(_firestore_client), "none", local[t], Empty)
            ELSE Goto(t, "body", local[t])
    /\ UNCHANGED <<env, clock, globals, store>>

-----------------------------------------------------------------------------
(* The environment *)

\* The operator sets, corrects or removes the FIREBASE_KEY secret.
SetEnv(v) ==
    /\ v # env
    /\ env' = v
    /\ UNCHANGED <<clock, globals, pc, call, local, store, last>>

\* Time passes.
Tick ==
    /\ clock < MaxTime
    /\ clock' = clock + 1
    /\ UNCHANGED <<env, globals, pc, call, local, store, last>>

-----------------------------------------------------------------------------
(* Documents and inputs *)

FlowId == "law_firm_intake"

SessionIds == {"s1", "s2"}

\* session_data mappings callers pass to save_user_session
SessionDatas ==
    { [step |-> 2],
      [name |-> "Ana"],
      [step |-> 3, created_at |-> 0],
      [last_updated |-> 0] }

LeadIds == 1..MaxLeads

\* lead_data mappings callers pass to save_lead_data
LeadDatas ==
    { Empty,
      [answers |-> <<"A", "B">>, status |-> "won", source |-> "web",
       timestamp |-> 0] }

\* update_data mappings callers pass to update_lead_data
UpdateDatas ==
    { [status |-> "contacted"],
      [status |-> "contacted", updated_at |-> 0] }

\* lines 87 and 124 (the same text)
Greeting ==
    [id |-> 0,
     question |-> "Ola! Para garantir que registramos corretamente suas informacoes, vamos comecar do inicio. Tudo bem?"]

\* lines 86-92
DefaultSteps ==
    << Greeting,
       [id |-> 1, question |-> "Qual e o seu nome completo?"],
       [id |-> 2, question |-> "Em qual area do direito voce precisa de ajuda?"],
       [id |-> 3, question |-> "Por favor, descreva brevemente sua situacao ou problema juridico."],
       [id |-> 4, question |-> "Gostaria de agendar uma consulta com nosso advogado especializado? (Sim ou Nao)"] >>

\* lines 85-98
DefaultFlow(now) ==
    [steps |-> DefaultSteps,
     completion_message |-> "Perfeito! Suas informacoes foram registradas com sucesso.",
     created_at |-> now,
     updated_at |-> now,
     version |-> "1.0",
     description |-> "Fluxo de captacao de leads para escritorio de advocacia"]

\* line 130
DefaultCompletion ==
    "Obrigado! Suas informacoes foram registradas e entraremos em contato em breve."

\* Entries of a stored "steps" list: mappings with or without id and
\* question, and bare values (a string, a number), tagged by "bare".
StepEntries ==
    { [id |-> 0, question |-> "q0"],
      [id |-> 1, question |-> "q1"],
      [id |-> 3],
      [question |-> "q"],
      [bare |-> "str", text |-> "hello"] }

StepLists == UNION {[1..n -> StepEntries] : n \in 0..MaxSteps}

\* Flow documents somebody else (an administrator, an older release) wrote
StoredFlows ==
    {[steps |-> s] : s \in StepLists}
    \cup {[steps |-> s, completion_message |-> "Bye"] :
            s \in {z \in StepLists : Len(z) <= 1}}
    \cup {[completion_message |-> "Bye"]}

\* isinstance(step, dict)
IsDict(step) == "bare" \notin DOMAIN step

\* lines 110-119, for the entry at position idx of enumerate(steps, start=1);
\* str(step) of a bare value is its text
NormalizeStepPositional(step, idx) ==
    IF IsDict(step)
    THEN [id |-> idx, question |-> Get(step, "question", "")]
    ELSE [id |-> idx, question |-> step.text]
NormalizeStep(step, idx) ==
    IF IsDict(step)
    THEN [id |-> Get(step, "id", idx), question |-> Get(step, "question", "")]
    ELSE [id |-> idx, question |-> step.text]

\* lines 121-125
EnsureGreetingAppended(normalized_steps) ==
    IF \E i \in 1..Len(normalized_steps) : normalized_steps[i].id = 0
    THEN normalized_steps
    ELSE Append(normalized_steps, Greeting)
EnsureGreeting(normalized_steps) ==
    IF \E i \in 1..Len(normalized_steps) : normalized_steps[i].id = 0
    THEN normalized_steps
    ELSE <<Greeting>> \o normalized_steps

\* lines 104-132: what get_conversation_flow returns for a stored document
NormalizedFlow(flow_data) ==
    LET steps == Get(flow_data, "steps", << >>)
        normalized_steps == [i \in 1..Len(steps) |-> NormalizeStep(steps[i], i)]
        with_steps == Merge(flow_data, [steps |-> EnsureGreeting(normalized_steps)])
    IN  IF "completion_message" \in DOMAIN with_steps THEN with_steps
        ELSE Merge(with_steps, [completion_message |-> DefaultCompletion])

\* lines 162-169
LeadDocCallerWins(lead_data, now) ==
    Merge([answers |-> << >>, timestamp |-> now, status |-> "new",
           source |-> "chatbot_intake", created_at |-> now,
           updated_at |-> now], lead_data)
LeadDoc(lead_data, now) ==
    [answers |-> Get(lead_data, "answers", << >>),
     timestamp |-> now,
     status |-> "new",
     source |-> "chatbot_intake",
     created_at |-> now,
     updated_at |-> now]

\* lines 212-214: session_data as save_user_session stamps it
StampedSession(session_data, now) ==
    LET with_updated == Merge(session_data, [last_updated |-> now])
    IN  IF "created_at" \notin DOMAIN with_updated
        THEN Merge(with_updated, [created_at |-> now])
        ELSE with_updated

\* document(id).set(data, merge=True) on a collection
SetReplace(coll, id, data) ==
    (id :> data) @@ coll
SetMerge(coll, id, data) ==
    (id :> Merge(Get(coll, id, Empty), data)) @@ coll

\* document(id).update(data) on a collection that holds id
Update(coll, id, data) ==
    [coll EXCEPT ![id] = Merge(@, data)]

-----------------------------------------------------------------------------
(* The coroutines, from the store call on.  reachable says whether the     *)
(* store answers this call or the call raises.                             *)

AtBody(op) == pc["loop"] = "body" /\ call["loop"] = op

StoreFails(t, info) ==
    /\ Finish(t, OnError(call[t]), "store", local[t], info)
    /\ UNCHANGED <<env, clock, globals, store>>

\* lines 80-83 and 104-132
FlowGet(reachable) ==
    /\ pc["loop"] = "body"
    /\ call["loop"] \in {"get_conversation_flow", "get_fallback_questions"}
    /\ LET info == [now |-> clock]
       IN  IF ~reachable THEN StoreFails("loop", info)
           ELSE IF FlowId \notin DOMAIN flows
           THEN /\ Goto("loop", "flow_100", local["loop"])
                /\ UNCHANGED <<env, clock, globals, store>>
           ELSE LET res == Returned(NormalizedFlow(flows[FlowId]))
                IN  /\ Finish("loop",
                              IF call["loop"] = "get_fallback_questions"
                              THEN FallbackOf(res) ELSE res,
                              "none", local["loop"], info)
                    /\ UNCHANGED <<env, clock, globals, store>>

\* lines 84-102
FlowCreate(reachable) ==
    /\ pc["loop"] = "flow_100"
    /\ LET info == [now |-> clock]
           default_flow == DefaultFlow(clock)
           res == Returned(default_flow)
       IN  IF ~reachable THEN StoreFails("loop", info)
           ELSE /\ flows' = SetReplace(flows, FlowId, default_flow)
                /\ Finish("loop",
                          IF call["loop"] = "get_fallback_questions"
                          THEN FallbackOf(res) ELSE res,
                          "none", local["loop"], info)
                /\ UNCHANGED <<env, clock, globals, leads, sessions, supplied>>

\* lines 162-175
SaveLeadData(lead_data, reachable) ==
    /\ AtBody("save_lead_data")
    /\ LET info == [data |-> lead_data, now |-> clock]
       IN  IF ~reachable THEN StoreFails("loop", info)
           ELSE \E lead_id \in LeadIds \ DOMAIN leads :
                /\ leads' = SetReplace(leads, lead_id, LeadDoc(lead_data, clock))
                /\ Finish("loop", Returned(lead_id), "none", local["loop"], info)
                /\ UNCHANGED <<env, clock, globals, flows, sessions, supplied>>

\* lines 188-190; update() raises NotFound for a document that does not exist
UpdateLeadDataUpserts(lead_id, update_data, reachable) ==
    /\ AtBody("update_lead_data")
    /\ LET info == [id |-> lead_id, data |-> update_data, now |-> clock]
           stamped == Merge(update_data, [updated_at |-> clock])
       IN  IF ~reachable THEN StoreFails("loop", info)
           ELSE /\ leads' = SetMerge(leads, lead_id, stamped)
                /\ Finish("loop", Returned(TRUE), "none", local["loop"], info)
                /\ UNCHANGED <<env, clock, globals, flows, sessions, supplied>>
UpdateLeadData(lead_id, update_data, reachable) ==
    /\ AtBody("update_lead_data")
    /\ LET info == [id |-> lead_id, data |-> update_data, now |-> clock]
           stamped == Merge(update_data, [updated_at |-> clock])
       IN  IF ~reachable THEN StoreFails("loop", info)
           ELSE IF lead_id \notin DOMAIN leads
           THEN /\ Finish("loop", OnError(call["loop"]), "not_found",
                          local["loop"], info)
                /\ UNCHANGED <<env, clock, globals, store>>
           ELSE /\ leads' = Update(leads, lead_id, stamped)
                /\ Finish("loop", Returned(TRUE), "none", local["loop"], info)
                /\ UNCHANGED <<env, clock, globals, flows, sessions, supplied>>

\* lines 202-203
GetUserSession(session_id, reachable) ==
    /\ AtBody("get_user_session")
    /\ LET info == [id |-> session_id, now |-> clock]
       IN  IF ~reachable THEN StoreFails("loop", info)
           ELSE /\ Finish("loop",
                          IF session_id \in DOMAIN sessions
                          THEN Returned(sessions[session_id])
                          ELSE Returned(None),
                          "none", local["loop"], info)
                /\ UNCHANGED <<env, clock, globals, store>>

\* lines 212-216
SaveUserSession(session_id, session_data, reachable) ==
    /\ AtBody("save_user_session")
    /\ LET info == [id |-> session_id, data |-> session_data, now |-> clock]
       IN  IF ~reachable THEN StoreFails("loop", info)
           ELSE /\ sessions' = SetMerge(sessions, session_id,
                                        StampedSession(session_data, clock))
                /\ supplied' = [supplied EXCEPT
                                   ![session_id] = Merge(@, session_data)]
                /\ Finish("loop", Returned(TRUE), "none", local["loop"], info)
                /\ UNCHANGED <<env, clock, globals, flows, leads>>

\* lines 228-244
GetFirebaseServiceStatus(reachable) ==
    /\ AtBody("get_firebase_service_status")
    /\ LET info == [now |-> clock]
       IN  IF ~reachable THEN StoreFails("loop", info)
           ELSE /\ Finish("loop",
                          Returned([status |-> "active",
                                    firestore_connected |-> TRUE,
                                    credentials_source |-> "env:FIREBASE_KEY"]),
                          "none", local["loop"], info)
                /\ UNCHANGED <<env, clock, globals, store>>

\* Somebody else writes the flow document.
AdminWriteFlow(doc) ==
    /\ doc # Get(flows, FlowId, Empty)
    /\ flows' = SetReplace(flows, FlowId, doc)
    /\ last' = NoCall
    /\ UNCHANGED <<env, clock, globals, pc, call, local, leads, sessions,
                   supplied>>

-----------------------------------------------------------------------------

\* Lines 22-23, and line 260 about to run on the importing thread.
Init ==
    /\ env \in EnvValues
    /\ clock = 0
    /\ _firebase_app = None
    /\ _firestore_client = None
    /\ pc = [t \in Threads |-> IF t = "loop" THEN "init_32" ELSE "idle"]
    /\ call = [t \in Threads |-> IF t = "loop" THEN "import" ELSE "none"]
    /\ local = [t \in Threads |-> NoLocal]
    /\ flows = Empty
    /\ leads = Empty
    /\ sessions = Empty
    /\ supplied = [s \in SessionIds |-> Empty]
    /\ last = NoCall

ClientSteps(t) ==
    \/ GfcCheck(t)
    \/ InitGuard(t)
    \/ InitLoad(t)
    \/ InitApp(t)
    \/ InitClient(t)
    \/ GfcReturn(t)

(* The collections do not depend on one another, so each group of          *)
(* operations is also checked on its own: SpecInit is the two synchronous  *)
(* functions called from both threads while the environment changes; the   *)
(* others are the event loop running one group of coroutines, from every   *)
(* initial environment.                                                    *)

NextFlow ==
    \/ \E op \in {"get_conversation_flow", "get_fallback_questions"} :
          BeginCoroutine(op)
    \/ ClientSteps("loop")
    \/ \E reachable \in BOOLEAN : FlowGet(reachable)
    \/ \E reachable \in BOOLEAN : FlowCreate(reachable)
    \/ \E doc \in StoredFlows : AdminWriteFlow(doc)
    \/ Tick

NextLead ==
    \/ \E op \in {"save_lead_data", "update_lead_data"} :
          /\ op = "save_lead_data" => DOMAIN leads # LeadIds
          /\ BeginCoroutine(op)
    \/ ClientSteps("loop")
    \/ \E d \in LeadDatas, reachable \in BOOLEAN : SaveLeadData(d, reachable)
    \/ \E i \in LeadIds, d \in UpdateDatas, reachable \in BOOLEAN :
          UpdateLeadData(i, d, reachable)
    \/ Tick

NextSession ==
    \/ \E op \in {"get_user_session", "save_user_session"} : BeginCoroutine(op)
    \/ ClientSteps("loop")
    \/ \E s \in SessionIds, reachable \in BOOLEAN : GetUserSession(s, reachable)
    \/ \E s \in SessionIds, d \in SessionDatas, reachable \in BOOLEAN :
          SaveUserSession(s, d, reachable)
    \/ Tick

NextInit ==
    \/ \E t \in Threads, op \in SyncOps : BeginSync(t, op)
    \/ \E t \in Threads : ClientSteps(t)
    \/ \E v \in EnvValues : SetEnv(v)

SpecInit == Init /\ [][NextInit]_vars
SpecFlow == Init /\ [][NextFlow]_vars
SpecLead == Init /\ [][NextLead]_vars
SpecSession == Init /\ [][NextSession]_vars

\* The five operations that swallow failures, on one session and one input.
NextSwallow ==
    \/ \E op \in SwallowOps : BeginCoroutine(op)
    \/ ClientSteps("loop")
    \/ \E reachable \in BOOLEAN : FlowGet(reachable)
    \/ \E reachable \in BOOLEAN : FlowCreate(reachable)
    \/ \E i \in LeadIds, reachable \in BOOLEAN :
          UpdateLeadData(i, [status |-> "contacted"], reachable)
    \/ \E reachable \in BOOLEAN : GetUserSession("s1", reachable)
    \/ \E reachable \in BOOLEAN : SaveUserSession("s1", [step |-> 2], reachable)
    \/ \E reachable \in BOOLEAN : GetFirebaseServiceStatus(reachable)
    \/ \E v \in EnvValues : SetEnv(v)
    \/ Tick

SpecSwallow == Init /\ [][NextSwallow]_vars

Next ==
    \/ NextInit
    \/ NextFlow
    \/ NextLead
    \/ NextSession
    \/ NextSwallow

Spec == Init /\ [][Next]_vars

-----------------------------------------------------------------------------
(* Properties *)

\* The step on which the coroutine op returns or raises out of its store call.
BodyStep(op) ==
    /\ call["loop"] = op
    /\ pc["loop"] \in {"body", "flow_100"}
    /\ pc'["loop"] = "idle"

InSection(t) == pc[t] \in {"init_37", "init_46", "init_47"}

\* C1: over save_user_session calls on one session id none of which carries
\* created_at in its data, every successful call sets last_updated to the
\* time of the call and only the first one writes created_at: a call on a
\* session that is already stored leaves its created_at as it was.
C1_CreatedAtSetOnce ==
    [][\A s \in SessionIds :
         ( /\ BodyStep("save_user_session")
           /\ last'.value = TRUE
           /\ last'.info.id = s
           /\ "created_at" \notin DOMAIN supplied'[s] )
         => /\ sessions'[s].last_updated = clock
            /\ s \in DOMAIN sessions =>
                 sessions'[s].created_at = sessions[s].created_at]_vars

\* C2: after any successful save_user_session calls, the stored document of a
\* session holds every field callers supplied for it, with the value of the
\* most recent call that supplied it.  last_updated is left out: every call
\* refreshes it (C1).
C2_SuppliedFieldsKept ==
    \A s \in SessionIds : \A k \in DOMAIN supplied[s] \ {"last_updated"} :
        /\ s \in DOMAIN sessions
        /\ k \in DOMAIN sessions[s]
        /\ sessions[s][k] = supplied[s][k]

\* The part of C2 the code keeps: a successful save_user_session writes the
\* fields of its data other than the two timestamps, keeps every other field
\* of the document except the two timestamps, and leaves the documents of the
\* other session ids alone.
SessionMergeFrame ==
    [][\A s \in SessionIds :
         (BodyStep("save_user_session") /\ last'.value = TRUE /\ last'.info.id = s)
         => LET d == last'.info.data
                old == Get(sessions, s, Empty)
                stamps == {"created_at", "last_updated"}
            IN  /\ \A k \in DOMAIN d \ stamps : sessions'[s][k] = d[k]
                /\ \A k \in DOMAIN old \ (DOMAIN d \cup stamps) :
                       k \in DOMAIN sessions'[s] /\ sessions'[s][k] = old[k]
                /\ DOMAIN sessions'[s] = DOMAIN old \cup DOMAIN d \cup stamps
                /\ DOMAIN sessions' = DOMAIN sessions \cup {s}
                /\ \A o \in DOMAIN sessions \ {s} : sessions'[o] = sessions[o]]_vars

\* C3: no failed initialization leaves the module where initialization is
\* skipped (the app handle is set) while no client handle is available:
\* whenever the app is set and the client is not, a thread is between lines
\* 46 and 47, about to create the client.
C3_NoSkippedInitWithoutClient ==
    (_firebase_app # None /\ _firestore_client = None)
        => \E t \in Threads : pc[t] = "init_47"

\* C4: initialize_firebase is idempotent: a call that finds the app handle set
\* does no work (reads no credentials, creates no app and no client) and
\* returns normally; a call that did the work and returned normally leaves
\* both handles set; and a handle, once set, is never replaced.
C4_IdempotentInit ==
    /\ [](/\ \A t \in Threads : local[t].guard # None => local[t].work = {}
          /\ last.guard # None => last.work = {}
          /\ (last.op = "initialize_firebase" /\ last.guard # None)
                => ~last.raised
          /\ (last.op = "initialize_firebase" /\ ~last.raised /\ last.guard = None)
                => /\ last.work = {"credentials", "app", "client"}
                   /\ _firebase_app # None
                   /\ _firestore_client # None)
    /\ [][/\ _firebase_app # None => _firebase_app' = _firebase_app
          /\ _firestore_client # None => _firestore_client' = _firestore_client]_vars

\* a second initialize_firebase, after one that set both handles, was a no-op
C4_SecondCallNoOp ==
    /\ last.op = "initialize_firebase"
    /\ last.guard # None
    /\ last.work = {}
    /\ _firestore_client # None

\* C5: the step list get_conversation_flow returns for a stored flow document
\* holds a step with id 0; when no stored step has id 0 it is the canonical
\* greeting followed by the stored steps in their order, each stored id kept.
C5_GreetingPresent ==
    (last.op = "get_conversation_flow" /\ ~last.raised) =>
        LET out == last.value.steps
            st == Get(flows[FlowId], "steps", << >>)
        IN  /\ \E i \in 1..Len(out) : out[i].id = 0
            /\ (\A i \in 1..Len(st) : Get(st[i], "id", 1) # 0) =>
                 /\ Len(out) = Len(st) + 1
                 /\ out[1].id = 0
                 /\ out[1].question = Greeting.question
                 /\ \A i \in 1..Len(st) :
                      /\ "id" \in DOMAIN st[i] => out[i+1].id = st[i].id
                      /\ "question" \in DOMAIN st[i] =>
                            out[i+1].question = st[i].question

\* a stored flow of two steps, none with id 0, was read
C5_StoredFlowWithoutGreetingRead ==
    /\ last.op = "get_conversation_flow"
    /\ ~last.raised
    /\ "version" \notin DOMAIN flows[FlowId]
    /\ "steps" \in DOMAIN flows[FlowId]
    /\ Len(flows[FlowId].steps) = 2
    /\ \A i \in 1..2 : Get(flows[FlowId].steps[i], "id", 1) # 0
    /\ \E i \in 1..2 : "id" \in DOMAIN flows[FlowId].steps[i]

\* C6: get_conversation_flow on a store without the flow document writes the
\* default document and returns it: five steps, ids 0..4 in order, and a
\* completion message; a later call returns the steps and the completion
\* message of that stored document, and a call that finds the document does
\* not write it.
C6_DefaultFlowCreatedOnce ==
    /\ []((last.op = "get_conversation_flow" /\ ~last.raised) =>
            /\ FlowId \in DOMAIN flows
            /\ "version" \in DOMAIN flows[FlowId] =>
                 /\ Len(last.value.steps) = 5
                 /\ \A i \in 1..5 : last.value.steps[i].id = i - 1
                 /\ last.value.steps = flows[FlowId].steps
                 /\ "completion_message" \in DOMAIN last.value
                 /\ last.value.completion_message
                      = flows[FlowId].completion_message)
    /\ [][(pc["loop"] = "body" /\ FlowId \in DOMAIN flows
           /\ pc'["loop"] = "idle") => flows' = flows]_vars

\* a second call, later than the one that created the default document
C6_SecondCallOnDefault ==
    /\ last.op = "get_conversation_flow"
    /\ ~last.raised
    /\ "version" \in DOMAIN flows[FlowId]
    /\ last.info.now > flows[FlowId].created_at

\* C7: the swallow-and-degrade operations never raise; after an
\* initialization failure or a store failure get_fallback_questions returns
\* the empty list, update_lead_data and save_user_session return false,
\* get_user_session returns None and get_firebase_service_status returns a
\* status object with status "error".
C7_SwallowAndDegrade ==
    last.op \in SwallowOps =>
        /\ ~last.raised
        /\ last.failure # "none" =>
             CASE last.op = "get_fallback_questions" -> last.value = << >>
               [] last.op = "update_lead_data" -> last.value = FALSE
               [] last.op = "save_user_session" -> last.value = FALSE
               [] last.op = "get_user_session" -> last.value = None
               [] last.op = "get_firebase_service_status" ->
                      last.value.status = "error"

\* a swallowing operation met a store failure after a lazy initialization
C7_StoreFailureSwallowed ==
    /\ last.op = "save_user_session"
    /\ last.failure = "store"
    /\ "client" \in last.work

\* an initialization failure reached a swallowing operation
C7_InitFailureSwallowed ==
    /\ last.op \in SwallowOps
    /\ last.failure = "init"

\* C8: update_lead_data on an existing lead (the store answering) returns true
\* and leaves the lead with the given fields, updated_at set to the time of
\* the call and its other fields unchanged; on an id that is not stored it
\* returns false, raises nothing and leaves the collection as it was.
C8_UpdateLead ==
    [][(BodyStep("update_lead_data") /\ last'.failure # "store") =>
         LET i == last'.info.id
             d == last'.info.data
         IN  IF i \in DOMAIN leads
             THEN /\ last'.value = TRUE
                  /\ ~last'.raised
                  /\ DOMAIN leads' = DOMAIN leads
                  /\ \A o \in DOMAIN leads \ {i} : leads'[o] = leads[o]
                  /\ DOMAIN leads'[i]
                       = DOMAIN leads[i] \cup DOMAIN d \cup {"updated_at"}
                  /\ leads'[i].updated_at = clock
                  /\ \A k \in DOMAIN d \ {"updated_at"} : leads'[i][k] = d[k]
                  /\ \A k \in DOMAIN leads[i] \ (DOMAIN d \cup {"updated_at"}) :
                        leads'[i][k] = leads[i][k]
             ELSE /\ last'.value = FALSE
                  /\ ~last'.raised
                  /\ leads' = leads]_vars

\* an existing lead was updated to status "contacted", later than its creation
C8_LeadContacted ==
    /\ last.op = "update_lead_data"
    /\ last.value = TRUE
    /\ last.info.data = [status |-> "contacted"]
    /\ leads[last.info.id].status = "contacted"
    /\ leads[last.info.id].updated_at > leads[last.info.id].created_at

\* update_lead_data was called with an id that is not stored
C8_UnknownLead ==
    /\ last.op = "update_lead_data"
    /\ last.failure = "not_found"

\* C9: every successful save_lead_data adds exactly one document under an id
\* the store assigns, returns that id and leaves the existing leads unchanged;
\* the new document holds the caller's answers (empty if absent), status "new"
\* and source "chatbot_intake", whatever the caller's data says.
C9_SaveLead ==
    [][(BodyStep("save_lead_data") /\ ~last'.raised) =>
         LET d == last'.info.data
             id == last'.value
         IN  /\ id \notin DOMAIN leads
             /\ DOMAIN leads' = DOMAIN leads \cup {id}
             /\ \A o \in DOMAIN leads : leads'[o] = leads[o]
             /\ leads'[id].answers = Get(d, "answers", << >>)
             /\ leads'[id].status = "new"
             /\ leads'[id].source = "chatbot_intake"]_vars

\* a second lead was saved from data that carries its own status and source
C9_LeadSavedOverCallerStatus ==
    /\ last.op = "save_lead_data"
    /\ ~last.raised
    /\ "status" \in DOMAIN last.info.data
    /\ Cardinality(DOMAIN leads) = 2
    /\ leads[last.value].answers = <<"A", "B">>

\* C10: nothing serializes initialization: while the module is uninitialized
\* and another thread is already past the check of line 32, reading the
\* credentials or about to create the app, a thread at line 32 passes the
\* check too and goes on to read the credentials.
C10_NoMutualExclusion ==
    \A t \in Threads :
        ( /\ pc[t] = "init_32"
          /\ _firebase_app = None
          /\ \E u \in Threads \ {t} : InSection(u) )
        => ENABLED (InitGuard(t) /\ pc'[t] = "init_37")

\* both threads have read the credentials and are about to create the app
C10_DuplicateInitialization ==
    \A t \in Threads :
        /\ pc[t] = "init_46"
        /\ "credentials" \in local[t].work

====
